---- MODULE Spec2Model ----
(***************************************************************************)
(* Computation order of a multi-order Runge-Kutta method (crate MORK).     *)
(*                                                                         *)
(* create_computation_order (src/src/lib.rs:102-118) takes the weight      *)
(* digraph of a method, a square boolean matrix, and returns the ordered   *)
(* list of strongly connected components, each tagged Explicit or          *)
(* Implicit.  The functions SCC, contraction and topological_sort live in  *)
(* the crate's module `graph` (lib.rs:74,76), whose source is not part of  *)
(* src/; they are modelled from spec.md sections 4.1-4.3.                  *)
(*                                                                         *)
(* A Rust Vec is modelled as a TLA+ sequence; Rust's 0-based v[i] is       *)
(* At(v, i) = v[i + 1].  Stage indices keep their 0-based values.          *)
(***************************************************************************)
EXTENDS Integers, Sequences, FiniteSets, TLC

\* Largest number of stages (size of the matrix) explored.
MaxS == 4
\* Largest number of true entries of an explored matrix.
MaxEdges == 3

VARIABLES
    weight_graph,   \* the argument: Vec<Vec<bool>>
    pc,             \* position in create_computation_order
    SCCs,           \* the local `SCC` of line 103: Vec<Vec<usize>>
    contracted,     \* the temporary contraction(weight_graph, &SCC) of line 104
    order,          \* the Vec<usize> returned by topological_sort, being iterated
    next_ix,        \* position of the iterator of line 105 in `order`
    units,          \* the SCC values collected so far (line 117)
    sub_evals       \* how many times `weight_graph.len() - 1` was evaluated (line 109)

vars == <<weight_graph, pc, SCCs, contracted, order, next_ix, units, sub_evals>>

----------------------------------------------------------------------------
\* Vec helpers

\* v[i] of Rust: 0-based indexing.
At(v, i) == v[i + 1]

\* Indexing v[i] panics unless i < v.len().
InBounds(v, i) == i >= 0 /\ i < Len(v)

\* The elements of a Vec, as a set.
Elems(v) == {v[k] : k \in 1..Len(v)}

\* J.contains(j)
contains(v, x) == \E k \in 1..Len(v) : v[k] = x

\* The range 0..n as the sequence of the values it yields (empty when n <= 0).
Range0(n) == [k \in 1..(IF n > 0 THEN n ELSE 0) |-> k - 1]

Min(S) == CHOOSE x \in S : \A y \in S : x <= y

\* A finite set of naturals as an ascending sequence.
RECURSIVE SortedSeq(_)
SortedSeq(S) == IF S = {} THEN <<>> ELSE <<Min(S)>> \o SortedSeq(S \ {Min(S)})

----------------------------------------------------------------------------
\* The argument: a square boolean matrix

\* The s x s matrix whose true entries are exactly the pairs of E.
Matrix(s, E) == [i \in 1..s |-> [j \in 1..s |-> <<i - 1, j - 1>> \in E]]

\* The entries (i, j) with j < i: the dependencies of an explicit method,
\* each stage reading all the stages before it.
LowerTriangle(s) == {e \in (0..(s - 1)) \X (0..(s - 1)) : e[2] < e[1]}

\* Stages 1 and 2 read each other, stage 3 reads both, stage 0 reads
\* nothing: a method with one implicit pair among explicit stages.
Mixed == Matrix(4, {<<1, 2>>, <<2, 1>>, <<3, 1>>, <<3, 2>>})

\* The row-major position (from 1) of the last true entry of g, 0 if none.
LastTrue(g) ==
    LET at == {(e[1] - 1) * Len(g) + e[2] :
                  e \in {f \in (1..Len(g)) \X (1..Len(g)) : g[f[1]][f[2]]}}
    IN IF at = {} THEN 0 ELSE CHOOSE x \in at : \A y \in at : y <= x

\* The number of true entries of g.
TrueEntries(g) ==
    Cardinality({e \in (1..Len(g)) \X (1..Len(g)) : g[e[1]][e[2]]})

----------------------------------------------------------------------------
\* Module graph (declared lib.rs:74, source not in src/): modelled from
\* spec.md 4.1 (ComponentFinder), 4.2 (Condenser), 4.3 (TopologicalSorter).

\* The true entries (i, j) of a square boolean matrix: i reads j.
EdgeSet(g) ==
    {e \in (0..(Len(g) - 1)) \X (0..(Len(g) - 1)) : At(At(g, e[1]), e[2])}

\* Transitive closure of R over the nodes 0..n-1, one intermediate node k
\* at a time.
RECURSIVE Warshall(_, _, _)
Warshall(R, k, n) ==
    IF k >= n THEN R
    ELSE Warshall(R \cup {e \in (0..(n - 1)) \X (0..(n - 1)) :
                            <<e[1], k>> \in R /\ <<k, e[2]>> \in R},
                  k + 1, n)

\* Mutation of Component: one direction of reachability is enough.
ComponentOneWay(R, n, i) == {j \in 0..(n - 1) : j = i \/ <<i, j>> \in R}

\* The component of stage i: the stages mutually reachable with i (4.1).
Component(R, n, i) ==
    {j \in 0..(n - 1) : j = i \/ (<<i, j>> \in R /\ <<j, i>> \in R)}

\* graph::SCC: the partition into strongly connected components, listed by
\* ascending smallest member, each component's members ascending (4.1:
\* ties broken by ascending stage index).
SCC(g) ==
    LET n == Len(g)
        R == Warshall(EdgeSet(g), 0, n)
        roots == SortedSeq({i \in 0..(n - 1) : i = Min(Component(R, n, i))})
    IN [a \in 1..Len(roots) |-> SortedSeq(Component(R, n, roots[a]))]

\* graph::contraction: one node per component; an edge A -> B iff A /= B and
\* some stage of A reads some stage of B (4.2).
contraction(g, comps) ==
    [a \in 1..Len(comps) |->
        [b \in 1..Len(comps) |->
            a /= b /\ \E i \in Elems(comps[a]), j \in Elems(comps[b]) :
                          At(At(g, i), j)]]

\* Mutation of NextReady: the highest ready node first.
NextReadyMax(ready) == CHOOSE x \in ready : \A y \in ready : x >= y

\* Tie-break of 4.3 among the nodes that may come next: the lowest node,
\* which is the component of lowest smallest member (SCC lists them so).
NextReady(ready) == Min(ready)

\* The nodes of g not yet placed all of whose dependencies are placed.
Ready(g, placed) ==
    {a \in 0..(Len(g) - 1) :
        a \notin Elems(placed) /\
        \A b \in 0..(Len(g) - 1) : At(At(g, a), b) => b \in Elems(placed)}

RECURSIVE Kahn(_, _)
Kahn(g, placed) ==
    IF Ready(g, placed) = {} THEN placed
    ELSE Kahn(g, Append(placed, NextReady(Ready(g, placed))))

\* graph::topological_sort: for every edge A -> B, B precedes A (4.3).
topological_sort(g) == Kahn(g, <<>>)

\* 4.3: a cycle (some node can never be placed) aborts construction.
cycle_detected(g) == Len(topological_sort(g)) < Len(g)

----------------------------------------------------------------------------
\* enum SCC (lib.rs:96-99)

Implicit(J, cJ) == [tag |-> "Implicit", J |-> J, comp_J |-> cJ]
Explicit(j) == [tag |-> "Explicit", j |-> j]

----------------------------------------------------------------------------
\* The closure of create_computation_order (lib.rs:106-116)

\* Mutation of is_implicit: the self-loop test is forgotten.
is_implicit_no_loop(comps, g, i) == Len(At(comps, i)) > 1

\* Line 107: SCC[i].len() > 1 || weight_graph[SCC[i][0]][SCC[i][0]]
is_implicit(comps, g, i) ==
    Len(At(comps, i)) > 1 \/
    At(At(g, At(At(comps, i), 0)), At(At(comps, i), 0))

\* The indexings of line 107 that panic: SCC[i], and, when the left operand
\* of || is false, SCC[i][0] and weight_graph[SCC[i][0]][SCC[i][0]].
index_panics(comps, g, i) ==
    IF ~InBounds(comps, i) THEN TRUE
    ELSE IF Len(At(comps, i)) > 1 THEN FALSE
    ELSE IF ~InBounds(At(comps, i), 0) THEN TRUE
    ELSE IF ~InBounds(g, At(At(comps, i), 0)) THEN TRUE
    ELSE ~InBounds(At(g, At(At(comps, i), 0)), At(At(comps, i), 0))

\* Mutation of range_end: off by one more.
range_end_minus_two(g) == Len(g) - 2

\* Line 109: weight_graph.len() - 1, as a mathematical integer; the usize
\* subtraction underflows when this is negative.
range_end(g) == Len(g) - 1

\* Mutation of implicit_J: only the first member is kept.
implicit_J_first(comps, i) == <<At(At(comps, i), 0)>>

\* Line 108: let J = SCC[i].clone();
implicit_J(comps, i) == At(comps, i)

\* Mutation of comp_J: the filter is dropped.
comp_J_unfiltered(g, J) == Range0(range_end(g))

\* Lines 109-111: (0..(weight_graph.len() - 1)).filter(|j| !J.contains(j)).collect()
comp_J(g, J) ==
    LET keep(j) == ~contains(J, j)
    IN SelectSeq(Range0(range_end(g)), keep)

\* Mutation of explicit_stage: the component's index instead of its member.
explicit_stage_index(comps, i) == i

\* Line 114: SCC[i][0]
explicit_stage(comps, i) == At(At(comps, i), 0)

\* Lines 107-115: the value the closure returns for component i.
closure(comps, g, i) ==
    IF is_implicit(comps, g, i)
    THEN Implicit(implicit_J(comps, i), comp_J(g, implicit_J(comps, i)))
    ELSE Explicit(explicit_stage(comps, i))

\* Mutation of has_next: the iterator yields one element too many.
has_next_off_by_one(v, k) == k <= Len(v)

\* Line 105: into_iter() yields order[k] while k < order.len().
has_next(v, k) == k < Len(v)

----------------------------------------------------------------------------
\* create_computation_order (lib.rs:102-118), one step per call it makes

Init ==
    /\ \E s \in 0..MaxS :
          weight_graph \in {Matrix(s, {}), Matrix(s, LowerTriangle(s)), Mixed}
    /\ pc = "caller"
    /\ SCCs = <<>>
    /\ contracted = <<>>
    /\ order = <<>>
    /\ next_ix = 0
    /\ units = <<>>
    /\ sub_evals = 0

\* The caller fills in the matrix it will pass (line 102: weight_graph),
\* starting from the empty one, from that of an explicit method or from the
\* mixed one, one entry after the other in row-major order: stage i reads stage j.  Any
\* square boolean matrix is a legal argument.
SetEntry ==
    /\ pc = "caller"
    /\ TrueEntries(weight_graph) < MaxEdges
    /\ LET last == LastTrue(weight_graph)
       IN \E i, j \in 1..Len(weight_graph) :
             /\ last < (i - 1) * Len(weight_graph) + j
             /\ weight_graph' = [weight_graph EXCEPT ![i][j] = TRUE]
    /\ UNCHANGED <<pc, SCCs, contracted, order, next_ix, units, sub_evals>>

\* Line 103: let SCC = SCC(weight_graph);
CallSCC ==
    /\ pc = "caller"
    /\ SCCs' = SCC(weight_graph)
    /\ pc' = "contraction"
    /\ UNCHANGED <<weight_graph, contracted, order, next_ix, units, sub_evals>>

\* Line 104: contraction(weight_graph, &SCC)
CallContraction ==
    /\ pc = "contraction"
    /\ contracted' = contraction(weight_graph, SCCs)
    /\ pc' = "sort"
    /\ UNCHANGED <<weight_graph, SCCs, order, next_ix, units, sub_evals>>

\* Lines 104-105: topological_sort(..).into_iter()
CallTopologicalSort ==
    /\ pc = "sort"
    /\ IF cycle_detected(contracted)
       THEN pc' = "panic" /\ UNCHANGED <<order, next_ix>>
       ELSE pc' = "map" /\ order' = topological_sort(contracted) /\ next_ix' = 0
    /\ UNCHANGED <<weight_graph, SCCs, contracted, units, sub_evals>>

\* Lines 106-116: the closure applied to the next element of the iterator,
\* which is always an element of `order`.  An out-of-range index panics.
\* The subtraction of line 109 below zero panics in a build with overflow
\* checks and wraps to 2^64 - 1 in one without, where collecting the range
\* aborts on allocation.
MapNext ==
    /\ pc = "map"
    /\ has_next(order, next_ix)
    /\ IF ~InBounds(order, next_ix)
       THEN /\ pc' = "panic"
            /\ UNCHANGED <<units, next_ix, sub_evals>>
       ELSE IF index_panics(SCCs, weight_graph, At(order, next_ix))
       THEN /\ pc' = "panic"
            /\ UNCHANGED <<units, next_ix, sub_evals>>
       ELSE IF is_implicit(SCCs, weight_graph, At(order, next_ix))
               /\ range_end(weight_graph) < 0
       THEN /\ pc' \in {"panic", "abort"}
            /\ sub_evals' = sub_evals + 1
            /\ UNCHANGED <<units, next_ix>>
       ELSE /\ units' = Append(units, closure(SCCs, weight_graph, At(order, next_ix)))
            /\ sub_evals' = IF is_implicit(SCCs, weight_graph, At(order, next_ix))
                            THEN sub_evals + 1 ELSE sub_evals
            /\ next_ix' = next_ix + 1
            /\ pc' = "map"
    /\ UNCHANGED <<weight_graph, SCCs, contracted, order>>

\* Line 117: .collect(), the iterator is exhausted and the Vec is returned.
Collect ==
    /\ pc = "map"
    /\ ~has_next(order, next_ix)
    /\ pc' = "done"
    /\ UNCHANGED <<weight_graph, SCCs, contracted, order, next_ix, units, sub_evals>>

Next == SetEntry \/ CallSCC \/ CallContraction \/ CallTopologicalSort \/ MapNext \/ Collect

Spec == Init /\ [][Next]_vars

----------------------------------------------------------------------------
\* Vocabulary of the properties

S == Len(weight_graph)
Stages == 0..(S - 1)
Done == pc = "done"
Failed == pc \in {"panic", "abort"}

\* Stage i reads stage j.
Reads(i, j) == At(At(weight_graph, i), j)

\* The stage indices a unit carries.
Members(u) == IF u.tag = "Explicit" THEN {u.j} ELSE Elems(u.J)

UnitIx == 1..Len(units)

\* The stages reachable from the stages of F along dependency edges
\* (paths of any length, zero included).
RECURSIVE ReachFrom(_)
ReachFrom(F) ==
    LET N == F \cup {j \in Stages : \E i \in F : Reads(i, j)}
    IN IF N = F THEN F ELSE ReachFrom(N)

Reachable(i, j) == j \in ReachFrom({i})

\* Unit p reads unit q: some stage of p reads some stage of q.
UnitReads(p, q) ==
    \E i \in Members(units[p]), j \in Members(units[q]) : Reads(i, j)

\* Some path leads from a stage of unit p to a stage of unit q.
UnitReaches(p, q) ==
    \E i \in Members(units[p]), j \in Members(units[q]) : Reachable(i, j)

\* Test matrices of the specification.
Relay == Matrix(3, {<<0, 1>>, <<2, 0>>})
SelfLoop == Matrix(1, {<<0, 0>>})

----------------------------------------------------------------------------
\* C1. Partition completeness: in the returned sequence the stage-index sets
\* of the units are pairwise disjoint, no unit lists a stage twice, and their
\* union is exactly {0, ..., s-1}.
C1_PartitionComplete ==
    Done =>
        /\ \A p, q \in UnitIx :
              p /= q => Members(units[p]) \cap Members(units[q]) = {}
        /\ \A p \in UnitIx :
              units[p].tag = "Implicit" =>
                  Cardinality(Elems(units[p].J)) = Len(units[p].J)
        /\ UNION {Members(units[p]) : p \in UnitIx} = Stages

C1_Witness ==
    /\ Done
    /\ S >= 3
    /\ \E p, q \in UnitIx :
          /\ units[p].tag = "Implicit" /\ Len(units[p].J) >= 2
          /\ units[q].tag = "Explicit"

\* C2. Dependency respect: when stage i reads stage j and they lie in
\* different units, the unit of j comes before the unit of i.  The relay
\* 0->1, 2->0 yields Explicit(1), Explicit(0), Explicit(2); a strictly lower
\* triangular chain yields Explicit(0), Explicit(1), ... in ascending order.
C2_DependencyRespect ==
    Done =>
        /\ \A p, q \in UnitIx :
              (p /= q /\ UnitReads(p, q)) => q < p
        /\ weight_graph = Relay =>
              units = <<Explicit(1), Explicit(0), Explicit(2)>>
        /\ weight_graph = Matrix(S, LowerTriangle(S)) =>
              units = [k \in 1..S |-> Explicit(k - 1)]

C2_Witness ==
    /\ Done
    /\ weight_graph = Matrix(4, LowerTriangle(4))
    /\ Len(units) = 4

\* C3. Complement of an Implicit unit: every emitted Implicit(J, complement)
\* has complement equal, as a set, to {0, ..., s-1} \ J, index s-1 included.
C3_ComplementIsFull ==
    \A p \in UnitIx :
        units[p].tag = "Implicit" =>
            Elems(units[p].comp_J) = Stages \ Elems(units[p].J)

\* C4. Classification: the unit emitted for a component with members J is
\* Implicit iff |J| > 1 or the sole member reads itself; otherwise it is
\* Explicit(j) for exactly that member.  An Implicit unit carries J.  The
\* 1 x 1 matrix with a self-loop yields Implicit({0}, {}).
C4_Classification ==
    /\ \A p \in UnitIx :
          LET J == At(SCCs, At(order, p - 1))
              u == units[p]
          IN /\ u.tag = "Implicit" <=>
                    (Len(J) > 1 \/ (Len(J) = 1 /\ Reads(J[1], J[1])))
             /\ u.tag = "Implicit" => u.J = J
             /\ u.tag = "Explicit" => (Len(J) = 1 /\ u.j = J[1])
    /\ (Done /\ weight_graph = SelfLoop) => units = <<Implicit(<<0>>, <<>>)>>

C4_Witness ==
    /\ Done
    /\ \E p, q, r \in UnitIx :
          /\ units[p].tag = "Implicit" /\ Len(units[p].J) = 1
          /\ units[q].tag = "Implicit" /\ Len(units[q].J) > 1
          /\ units[r].tag = "Explicit"

\* C5. Units are the strongly connected components: two distinct stages are
\* in the same unit iff each is reachable from the other; a stage whose only
\* edge is a self-loop is the sole member of its unit.
C5_UnitsAreComponents ==
    Done =>
        /\ LET reach == [i \in Stages |-> ReachFrom({i})]
           IN \A i, j \in Stages :
                 i /= j =>
                     ((\E p \in UnitIx : {i, j} \subseteq Members(units[p]))
                         <=> (j \in reach[i] /\ i \in reach[j]))
        /\ \A i \in Stages :
              (Reads(i, i) /\ \A j \in Stages \ {i} : ~Reads(i, j) /\ ~Reads(j, i))
                  => \E p \in UnitIx : Members(units[p]) = {i}

C5_Witness ==
    /\ Done
    /\ \E p \in UnitIx : Cardinality(Members(units[p])) >= 2
    /\ \E i \in Stages :
          /\ Reads(i, i)
          /\ \A j \in Stages \ {i} : ~Reads(i, j) /\ ~Reads(j, i)

\* Position in the call, counted in steps that cannot be taken again.
PcRank ==
    CASE pc = "caller" -> 0
      [] pc = "contraction" -> 1
      [] pc = "sort" -> 2
      [] pc = "map" -> 3
      [] OTHER -> 4

\* C6. Totality: on every square boolean matrix the call neither panics nor
\* aborts (no out-of-range index, no underflow, no cycle in the
\* condensation), and it returns: a call that has not failed has returned or
\* has its next step to take, the iterator never passes the end of the
\* order, which is no longer than the matrix, and every step moves the call
\* to its next position or consumes one element of the order, so that no
\* run goes on for ever.
C6_Total ==
    /\ [](~Failed /\ next_ix <= Len(order) /\ Len(order) <= S)
    /\ [][pc /= "caller" =>
            (PcRank' > PcRank \/ (PcRank' = PcRank /\ next_ix' > next_ix))]_vars

C6_Witness ==
    /\ Done
    /\ S >= 1
    /\ sub_evals >= 1
    /\ Len(units) >= 2

C9_EmptyInput ==
    S = 0 =>
        /\ ~Failed
        /\ sub_evals = 0
        /\ Done => units = <<>>

C9_Witness == S = 0 /\ Done

\* C10. Well-formed Implicit units: J is not empty, J and the complement
\* are disjoint, and the complement is strictly ascending with every entry
\* a stage index below s.
C10_ImplicitWellFormed ==
    \A p \in UnitIx :
        units[p].tag = "Implicit" =>
            LET J == units[p].J
                cJ == units[p].comp_J
            IN /\ Len(J) > 0
               /\ Elems(J) \cap Elems(cJ) = {}
               /\ \A a, b \in 1..Len(cJ) : a < b => cJ[a] < cJ[b]
               /\ \A a \in 1..Len(cJ) : cJ[a] \in Stages

C10_Witness ==
    /\ S >= 1
    /\ \E p \in UnitIx :
          /\ units[p].tag = "Implicit"
          /\ Len(units[p].J) >= 2
          /\ Len(units[p].comp_J) >= 2

====
